---- MODULE Spec2Model ----
(***************************************************************************)
(* Model of the Gmail acquisition-and-conversion pipeline of email/cli.py: *)
(* get_message_ids (cursor pagination), download_email_batch (idempotent   *)
(* download into raw_emails/{id}.json), extract_content_from_payload       *)
(* (MIME walk) and convert_emails_to_markdown (conversion stage).          *)
(***************************************************************************)
EXTENDS Integers, Sequences, FiniteSets, TLC

\* ------------------------------------------------------------------ bounds
MaxId == 2          \* message identifiers are 1..MaxId
MaxLen == 2         \* longest identifier sequence handed to a download run
MaxPages == 4       \* most pages the listing service holds
MaxPageLen == 2     \* most identifiers on one page of the listing service
MaxN == 3           \* largest --max-results value tried

Ids == 1..MaxId

RECURSIVE SeqsUpTo(_, _)
SeqsUpTo(S, n) ==
    IF n = 0 THEN {<<>>}
    ELSE LET shorter == SeqsUpTo(S, n - 1)
         IN  shorter \cup {Append(s, x) : s \in {t \in shorter : Len(t) = n - 1}, x \in S}

Min(a, b) == IF a < b THEN a ELSE b

\* ------------------------------------------------- MIME payloads and decoding
NoFilter == ""      \* mime_type_filter=None (falsy)
NoData == "<no data key>"
MissingKey == "<no mimeType key>"

\* A payload node: 'mimeType', 'body' (with or without 'data'), optional 'parts'.
Leaf(mime, data) ==
    [mimeType |-> mime, hasBody |-> TRUE, data |-> data, hasParts |-> FALSE, parts |-> <<>>]
Multi(mime, parts) ==
    [mimeType |-> mime, hasBody |-> TRUE, data |-> NoData, hasParts |-> TRUE, parts |-> parts]

Ok(content) == [raised |-> FALSE, brk |-> FALSE, content |-> content]
Break(content) == [raised |-> FALSE, brk |-> TRUE, content |-> content]
Raise == [raised |-> TRUE, brk |-> FALSE, content |-> ""]

\* base64.urlsafe_b64decode(data).decode('utf-8') on the data tokens used here:
\* "UA==" is "P", "SA==" is "H", "UTI=" is "Q2", "" is "", "U" has incorrect
\* padding (binascii.Error), "_w==" is the byte 0xFF (UnicodeDecodeError).
Decode(data) ==
    CASE data = "UA==" -> Ok("P")
      [] data = "SA==" -> Ok("H")
      [] data = "UTI=" -> Ok("Q2")
      [] data = ""     -> Ok("")
      [] OTHER         -> Raise

\* The block without its break: the loop goes on after a decoded part.
DecodeAndBreak_NoBreak(part, content) ==
    IF ~part.hasBody THEN Raise
    ELSE IF part.data = NoData THEN Ok(content)
    ELSE LET d == Decode(part.data) IN IF d.raised THEN Raise ELSE Ok(d.content)

\* One "if 'data' in part['body']: content = decode(...); break" block.
DecodeAndBreak(part, content) ==
    IF ~part.hasBody THEN Raise
    ELSE IF part.data = NoData THEN Ok(content)
    ELSE LET d == Decode(part.data) IN IF d.raised THEN Raise ELSE Break(d.content)

\* The type tests with the filter ignored: every call prefers HTML.
PartStep_IgnoresFilter(part, filter, content) ==
    IF part.mimeType = MissingKey THEN Raise
    ELSE IF part.mimeType = "text/html" THEN DecodeAndBreak(part, content)
    ELSE IF part.mimeType = "text/plain" THEN
        IF ~part.hasBody THEN Raise
        ELSE IF part.data /= NoData /\ content = "" THEN
            LET d == Decode(part.data) IN IF d.raised THEN Raise ELSE Ok(d.content)
        ELSE Ok(content)
    ELSE Ok(content)

\* The type tests of one loop iteration, before the "if 'parts' in part" test.
PartStep(part, filter, content) ==
    IF part.mimeType = MissingKey THEN Raise
    ELSE IF filter /= NoFilter /\ part.mimeType = filter THEN DecodeAndBreak(part, content)
    ELSE IF filter = NoFilter THEN
        IF part.mimeType = "text/html" THEN DecodeAndBreak(part, content)
        ELSE IF part.mimeType = "text/plain" THEN
            IF ~part.hasBody THEN Raise
            ELSE IF part.data /= NoData /\ content = "" THEN
                LET d == Decode(part.data) IN IF d.raised THEN Raise ELSE Ok(d.content)
            ELSE Ok(content)
        ELSE Ok(content)
    ELSE Ok(content)

RECURSIVE extract_content_from_payload(_, _)
RECURSIVE ExtractParts(_, _, _, _)

\* The for loop over payload['parts'], from part i on, with the current content.
ExtractParts(parts, i, filter, content) ==
    IF i > Len(parts) THEN Ok(content)
    ELSE
        LET part == parts[i]
            s == PartStep(part, filter, content)
        IN  IF s.raised THEN Raise
            ELSE IF s.brk THEN Ok(s.content)
            ELSE IF part.hasParts THEN
                LET r == extract_content_from_payload(part, filter)
                IN  IF r.raised THEN Raise
                    ELSE IF r.content /= "" THEN Ok(r.content)
                    ELSE ExtractParts(parts, i + 1, filter, r.content)
            ELSE ExtractParts(parts, i + 1, filter, s.content)

extract_content_from_payload(payload, filter) ==
    IF payload.hasParts THEN ExtractParts(payload.parts, 1, filter, "")
    ELSE IF payload.mimeType = MissingKey THEN Raise
    ELSE IF payload.mimeType \in {"text/html", "text/plain"} THEN
        IF filter = NoFilter \/ payload.mimeType = filter THEN
            IF ~payload.hasBody THEN Raise
            ELSE IF payload.data /= NoData THEN
                LET d == Decode(payload.data) IN IF d.raised THEN Raise ELSE Ok(d.content)
            ELSE Ok("")
        ELSE Ok("")
    ELSE Ok("")

\* ------------------------------------------------------ record files on disk
NoFile == [kind |-> "none", text |-> "", html |-> ""]
\* A file that open(..., 'w') created and json.dump has not finished: a strict
\* prefix of a JSON object, which json.load rejects.
Partial == [kind |-> "partial", text |-> "", html |-> ""]
Record(text, html) == [kind |-> "record", text |-> text, html |-> html]

\* A message as the remote get(format='full') returns it.
Message(payload) == [hasPayload |-> TRUE, payload |-> payload]
NoPayloadMessage == [hasPayload |-> FALSE, payload |-> Leaf("text/plain", NoData)]

process_email_for_storage(message) ==
    IF ~message.hasPayload THEN [raised |-> FALSE, record |-> Record("", "")]
    ELSE
        LET text_content == extract_content_from_payload(message.payload, "text/plain")
            html_content == extract_content_from_payload(message.payload, "text/html")
        IN  IF text_content.raised \/ html_content.raised
            THEN [raised |-> TRUE, record |-> NoFile]
            ELSE [raised |-> FALSE,
                  record |-> Record(text_content.content, html_content.content)]

\* The messages the remote service answers a full get with.
MessagePool ==
    { Message(Multi("multipart/alternative",
                    <<Leaf("text/plain", "UA=="), Leaf("text/html", "SA==")>>)),
      Message(Leaf("text/plain", "UTI=")),
      NoPayloadMessage,
      Message(Multi("multipart/mixed", <<Leaf("text/plain", "U")>>)),
      Message(Leaf("text/html", "_w==")),
      Message(Multi("multipart/mixed", <<Leaf(MissingKey, NoData)>>)) }

\* The answer of a get call that raises (transport or service error).
HttpError == [hasPayload |-> FALSE, payload |-> Leaf(MissingKey, "HttpError")]
GetResponses == MessagePool \cup {HttpError}

\* What process_email_for_storage can hand to json.dump.
StorableRecords ==
    {process_email_for_storage(m).record : m \in {x \in MessagePool : ~process_email_for_storage(x).raised}}

PreviewCount == 5

VARIABLES
    \* the local store
    raw_emails,       \* raw_emails/{id}.json : Ids -> NoFile, Partial or a record
    raw_dir_exists,   \* output_dir/raw_emails has been created
    artifacts,        \* output_dir/{name}.md : ArtifactNames -> content
    \* download_email_batch
    d_pc,             \* "idle", "running", "writing", "preview", "done"
    d_ids,            \* message_ids
    d_idx,            \* identifiers of message_ids already iterated over
    dry_run,
    d_outcome,        \* how the last iteration ended
    d_pending,        \* processed_message while its file is being written
    get_log,          \* the remote get calls of this run: <<id, format>>
    start_files,      \* identifiers that had a record file when the run began
    d_clean,          \* no fetch, decode or open error so far in this run
    d_repeat,         \* the run repeats the previous completed run's message_ids
    \* convert_emails_to_markdown
    c_pc,             \* "idle", "running", "done"
    json_files,       \* the record files glob("*.json") listed, in its order
    c_idx,            \* record files already iterated over
    successful,
    failed,
    conv_calls,       \* invocations of convert() in this run
    c_outcome,        \* how the last iteration ended
    arts_at_start,    \* the artifact files when the run began
    c_second,         \* a completed conversion run precedes this one
    \* get_message_ids
    svc_pages,        \* the listing service: its pages, each with its cursor
    args,             \* the parsed command line
    r_pc,             \* "idle", "loop", "done"
    message_ids,      \* the accumulated (at "done": returned) identifiers
    next_page_token,
    list_calls,       \* the list calls issued: their pageToken and maxResults
    list_failed,      \* a list call raised
    response,         \* what the user typed at "Continue? (y/N): "
    \* extract_content_from_payload applied to one payload
    e_payload,
    e_filter,
    e_out,            \* the result, or Pending before the call
    \* the filename derivation applied to one converter answer
    n_essay,
    n_out,            \* md_filename, or <<>> before it is derived
    \* parse_arguments and build_gmail_query applied to one command line
    q_given,          \* the options as typed: a sequence of <<flag, value>>
    q_out,            \* the query, or Unbuilt before the call
    \* main
    m_pc,             \* "off", "start", "running", "returned"
    m_command,        \* args.command
    m_exit,           \* why main returned
    token_pickle,     \* token.pickle
    credentials_json, \* credentials.json exists
    \* ModelQuery (openrouter_helper) and the remote catalogue behind its client
    mq_models,        \* the remote catalogue as the last request found it
    mq_filters,       \* self._filters, in the order they were added
    mq_call,          \* the last query method called, "none" or "raised"
    mq_fetched,       \* what client.get_models() returned to that call
    mq_result         \* what that call returned

downloadVars == <<raw_emails, raw_dir_exists, d_pc, d_ids, d_idx, dry_run, d_outcome,
                  d_pending, get_log, start_files, d_clean, d_repeat>>
convertVars == <<artifacts, c_pc, json_files, c_idx, successful, failed, conv_calls,
                 c_outcome, arts_at_start, c_second>>

retrieveVars == <<svc_pages, args, r_pc, message_ids, next_page_token, list_calls,
                  list_failed, response>>
pureVars == <<e_payload, e_filter, e_out, n_essay, n_out, q_given, q_out>>
mainVars == <<m_pc, m_command, m_exit, token_pickle, credentials_json>>

catalogVars == <<mq_models, mq_filters, mq_call, mq_fetched, mq_result>>

vars == <<downloadVars, convertVars, retrieveVars, pureVars, mainVars, catalogVars>>

\* --------------------------------------------------------- conversion stage
\* Strings that the code edits are sequences of one-character strings.
Hostile == {"<", ">", ":", "\"", "/", "\\", "|", "?", "*"}
Whitespace == {" ", "\t", "\n"}
TitleLimit == 150

DigitChars == <<"0", "1", "2", "3", "4", "5", "6", "7", "8", "9">>
RECURSIVE Digits(_)
Digits(n) == IF n < 10 THEN <<DigitChars[n + 1]>> ELSE Digits(n \div 10) \o <<DigitChars[(n % 10) + 1]>>

MonthAbbr ==
    << <<"J", "a", "n">>, <<"F", "e", "b">>, <<"M", "a", "r">>, <<"A", "p", "r">>,
       <<"M", "a", "y">>, <<"J", "u", "n">>, <<"J", "u", "l">>, <<"A", "u", "g">>,
       <<"S", "e", "p">>, <<"O", "c", "t">>, <<"N", "o", "v">>, <<"D", "e", "c">> >>

\* essay.Date.strftime('%-d %b %y')
date_str(date) ==
    Digits(date.day) \o <<" ">> \o MonthAbbr[date.month] \o <<" ">>
        \o <<DigitChars[((date.year % 100) \div 10) + 1], DigitChars[(date.year % 10) + 1]>>

\* re.sub(r'[<>:"/\\|?*/?]', '', title)
RemoveHostile(title) == SelectSeq(title, LAMBDA c : c \notin Hostile)

\* re.sub(r'\s+', ' ', title), computed by halves: a whitespace run that
\* straddles the middle gives one space, not two.
RECURSIVE CollapseWhitespace(_)
CollapseWhitespace(title) ==
    IF title = <<>> THEN <<>>
    ELSE IF Len(title) = 1 THEN (IF title[1] \in Whitespace THEN <<" ">> ELSE title)
    ELSE LET h == Len(title) \div 2
             l == CollapseWhitespace(SubSeq(title, 1, h))
             r == CollapseWhitespace(SubSeq(title, h + 1, Len(title)))
         IN  IF title[h] \in Whitespace /\ title[h + 1] \in Whitespace
             THEN l \o Tail(r)
             ELSE l \o r

\* str.strip(): from the first to the last character that is not whitespace.
Strip(title) ==
    LET inked == {i \in 1..Len(title) : title[i] \notin Whitespace}
    IN  IF inked = {} THEN <<>>
        ELSE SubSeq(title, CHOOSE i \in inked : \A j \in inked : i <= j,
                           CHOOSE i \in inked : \A j \in inked : j <= i)

\* The cleaning without the [:150] slice.
clean_title_Untruncated(title) == Strip(CollapseWhitespace(RemoveHostile(title)))

clean_title(title) ==
    LET stripped == Strip(CollapseWhitespace(RemoveHostile(title)))
    IN  SubSeq(stripped, 1, Min(Len(stripped), TitleLimit))

\* f"{date_str} {clean_title}.md"
md_filename(essay) ==
    date_str(essay.Date) \o <<" ">> \o clean_title(essay.PostTitle) \o <<".", "m", "d">>

\* The answers of the external converter: it may give any of these for any
\* text (a language model at temperature 1.0, uncached), or raise. Content is
\* tagged with the text it was produced from.
Essay(title, date, body) == [PostTitle |-> title, Date |-> date, Body |-> body]
EssayPool ==
    { Essay(<<"a">>, [year |-> 2024, month |-> 3, day |-> 5], "c1"),
      Essay(<<"a", ":">>, [year |-> 1924, month |-> 3, day |-> 5], "c2"),
      Essay(<<" ", "a", "\t", " ", "b", "?">>, [year |-> 2024, month |-> 3, day |-> 5], "c3") }
ConvertRaises == Essay(<<>>, [year |-> 0, month |-> 1, day |-> 1], "<raises>")
ConverterAnswers == EssayPool \cup {ConvertRaises}
Content(essay, text) == <<essay.Body, text>>

ArtifactNames == {md_filename(e) : e \in EssayPool}
NoArtifact == <<"<absent>", "">>
\* A file open(md_file, 'w') created whose write did not happen.
EmptyArtifact == <<"", "">>
WriteOutcomes == {"ok", "open_raises", "write_raises"}

\* Mutant: the existence test is dropped, an existing artifact is overwritten.
ArtifactExists_Never(arts, name) == FALSE

\* md_file.exists()
ArtifactExists(arts, name) == arts[name] /= NoArtifact

\* Mutant: a record with an empty body.text is treated as unreadable.
ReadBodyText_RejectsEmpty(file) ==
    IF file.kind = "record" /\ file.text /= "" THEN [raised |-> FALSE, content |-> file.text]
    ELSE [raised |-> TRUE, content |-> ""]

\* json.load(f) and message_data['body'].get('text', None)
ReadBodyText(file) ==
    IF file.kind = "record" THEN [raised |-> FALSE, content |-> file.text]
    ELSE [raised |-> TRUE, content |-> ""]

\* Mutant: the iteration that skips an existing artifact counts as a success.
ConvertRecord_CountsSkips(file, arts, answer, wr) ==
    LET read == ReadBodyText(file)
        name == md_filename(answer)
        res(outcome, a, called, succ, fail) ==
            [outcome |-> outcome, arts |-> a, called |-> called, succ |-> succ, fail |-> fail]
    IN  IF read.raised THEN res("read_failed", arts, 0, 0, 1)
        ELSE IF answer = ConvertRaises THEN res("convert_failed", arts, 1, 0, 0)
        ELSE IF ArtifactExists(arts, name) THEN res("skipped_exists", arts, 1, 1, 0)
        ELSE IF wr = "open_raises" THEN res("write_failed", arts, 1, 0, 0)
        ELSE IF wr = "write_raises"
        THEN res("write_failed", [arts EXCEPT ![name] = EmptyArtifact], 1, 0, 0)
        ELSE res("converted", [arts EXCEPT ![name] = Content(answer, read.content)], 1, 1, 0)

\* The body of one iteration of the loop over json_files.
ConvertRecord(file, arts, answer, wr) ==
    LET read == ReadBodyText(file)
        name == md_filename(answer)
        res(outcome, a, called, succ, fail) ==
            [outcome |-> outcome, arts |-> a, called |-> called, succ |-> succ, fail |-> fail]
    IN  IF read.raised THEN res("read_failed", arts, 0, 0, 1)
        ELSE IF answer = ConvertRaises THEN res("convert_failed", arts, 1, 0, 0)
        ELSE IF ArtifactExists(arts, name) THEN res("skipped_exists", arts, 1, 0, 0)
        ELSE IF wr = "open_raises" THEN res("write_failed", arts, 1, 0, 0)
        ELSE IF wr = "write_raises"
        THEN res("write_failed", [arts EXCEPT ![name] = EmptyArtifact], 1, 0, 0)
        ELSE res("converted", [arts EXCEPT ![name] = Content(answer, read.content)], 1, 1, 0)

ConvertIdle ==
    /\ artifacts = [n \in ArtifactNames |-> NoArtifact]
    /\ c_pc = "idle"
    /\ json_files = <<>>
    /\ c_idx = 0
    /\ successful = 0
    /\ failed = 0
    /\ conv_calls = 0
    /\ c_outcome = "none"
    /\ arts_at_start = [n \in ArtifactNames |-> NoArtifact]
    /\ c_second = FALSE

\* ------------------------------------------------------------ get_message_ids
NoMax == -1         \* args.max_results is None (no --max-results)
NoToken == 0        \* no 'nextPageToken' in the answer; next_page_token = None
DefaultPageSize == 500

\* "if args.max_results" (None and 0 are both falsy)
Truthy(n) == n /= NoMax /\ n /= 0

RECURSIVE Join(_, _)
Join(strs, sep) ==
    IF strs = <<>> THEN <<>>
    ELSE IF Len(strs) = 1 THEN strs[1]
    ELSE strs[1] \o sep \o Join(Tail(strs), sep)

Wildcards == {"*", "?"}

\* The query with the subject clause put before the sender clause.
build_gmail_query_SubjectFirst(a) ==
    LET sender_part ==
            IF a.sender = <<>> THEN <<>>
            ELSE << <<"f", "r", "o", "m", ":">>
                    \o SelectSeq(a.sender, LAMBDA c : c \notin Wildcards) >>
        subject_part ==
            IF a.subject = <<>> THEN <<>>
            ELSE IF \E i \in 1..Len(a.subject) : a.subject[i] = "\""
                 THEN << <<"s", "u", "b", "j", "e", "c", "t", ":">> \o a.subject >>
                 ELSE << <<"s", "u", "b", "j", "e", "c", "t", ":", "\"">> \o a.subject \o <<"\"">> >>
        after_part ==
            IF a.after = <<>> THEN <<>>
            ELSE << <<"a", "f", "t", "e", "r", ":">> \o a.after >>
        before_part ==
            IF a.before = <<>> THEN <<>>
            ELSE << <<"b", "e", "f", "o", "r", "e", ":">> \o a.before >>
        query_part == IF a.query = <<>> THEN <<>> ELSE <<a.query>>
    IN  Join(subject_part \o sender_part \o after_part \o before_part \o query_part, <<" ">>)

build_gmail_query(a) ==
    LET sender_part ==
            IF a.sender = <<>> THEN <<>>
            ELSE IF \E i \in 1..Len(a.sender) : a.sender[i] \in Wildcards
                 THEN << <<"f", "r", "o", "m", ":">>
                         \o SelectSeq(a.sender, LAMBDA c : c \notin Wildcards) >>
                 ELSE << <<"f", "r", "o", "m", ":">> \o a.sender >>
        subject_part ==
            IF a.subject = <<>> THEN <<>>
            ELSE IF \E i \in 1..Len(a.subject) : a.subject[i] = "\""
                 THEN << <<"s", "u", "b", "j", "e", "c", "t", ":">> \o a.subject >>
                 ELSE << <<"s", "u", "b", "j", "e", "c", "t", ":", "\"">> \o a.subject \o <<"\"">> >>
        after_part ==
            IF a.after = <<>> THEN <<>>
            ELSE << <<"a", "f", "t", "e", "r", ":">> \o a.after >>
        before_part ==
            IF a.before = <<>> THEN <<>>
            ELSE << <<"b", "e", "f", "o", "r", "e", ":">> \o a.before >>
        query_part == IF a.query = <<>> THEN <<>> ELSE <<a.query>>
    IN  Join(sender_part \o subject_part \o after_part \o before_part \o query_part, <<" ">>)

Criteria(sender, subject, after, before, query) ==
    [sender |-> sender, subject |-> subject, after |-> after, before |-> before,
     query |-> query]
CriteriaPool ==
    { Criteria(<<>>, <<>>, <<>>, <<>>, <<>>),
      Criteria(<<"*", "@", "x">>, <<>>, <<>>, <<>>, <<>>),
      Criteria(<<>>, <<"s">>, <<>>, <<>>, <<"q">>) }
Args(c, max_results, force) ==
    [sender |-> c.sender, subject |-> c.subject, after |-> c.after, before |-> c.before,
     query |-> c.query, max_results |-> max_results, force |-> force]

\* input("Continue? (y/N): ")
Responses == {"y", "Y", "n", ""}
NotAsked == "<not asked>"
Lower(r) == IF r = "Y" THEN "y" ELSE r

\* The listing service holds the identifiers 1, 2, 3, ... in its order, cut
\* into pages; every page but the last carries a cursor. It is free to make a
\* page shorter or longer than the maxResults asked for.
RECURSIVE PagesOf(_, _, _)
PagesOf(sizes, first, index) ==
    IF sizes = <<>> THEN <<>>
    ELSE << [ids |-> [i \in 1..sizes[1] |-> first + i - 1],
             cursor |-> IF Len(sizes) = 1 THEN NoToken ELSE index] >>
         \o PagesOf(Tail(sizes), first + sizes[1], index + 1)
Services == {PagesOf(sizes, 1, 1) : sizes \in SeqsUpTo(0..MaxPageLen, MaxPages) \ {<<>>}}

\* The page list(pageToken=token) answers with: the first page without a
\* token, else the page after the one that carried the token.
ServicePage(pages, token) ==
    IF token = NoToken THEN pages[1]
    ELSE pages[1 + CHOOSE i \in 1..Len(pages) : pages[i].cursor = token]

RECURSIVE ConcatIds(_)
ConcatIds(pages) == IF pages = <<>> THEN <<>> ELSE pages[1].ids \o ConcatIds(Tail(pages))

\* params['maxResults']
MaxResultsParam(a) == IF Truthy(a.max_results) THEN a.max_results ELSE DefaultPageSize

\* Mutant: the cursor is never passed on, every call asks for the first page.
PageTokenParam_Dropped(token) == NoToken

\* "if next_page_token: params['pageToken'] = next_page_token"
PageTokenParam(token) == token

\* One iteration of the while loop whose list call returned `page`.
AfterPage(ids, a, page) ==
    LET all == ids \o page.ids
    IN  IF Truthy(a.max_results) /\ Len(all) >= a.max_results
        THEN [message_ids |-> SubSeq(all, 1, a.max_results),
              next_page_token |-> NoToken, pc |-> "done"]
        ELSE [message_ids |-> all, next_page_token |-> page.cursor,
              pc |-> IF page.cursor = NoToken THEN "done" ELSE "loop"]

\* Mutant: an error discards what was accumulated.
OnListError_Discards(ids) == [message_ids |-> <<>>, pc |-> "done"]

\* except Exception: print(...); break, then return message_ids
OnListError(ids) == [message_ids |-> ids, pc |-> "done"]

\* Mutant: the prompt is never shown, an empty query goes straight to the loop.
Prompts_Never(query, force) == FALSE

\* "if not query: ... if not args.force:" the prompt is shown
Prompts(query, force) == query = <<>> /\ ~force

\* "if response.lower() != 'y': return []"
Declined(typed) == Lower(typed) /= "y"

RetrieveIdle ==
    /\ svc_pages = <<>>
    /\ args = Args(Criteria(<<>>, <<>>, <<>>, <<>>, <<>>), NoMax, FALSE)
    /\ r_pc = "idle"
    /\ message_ids = <<>>
    /\ next_page_token = NoToken
    /\ list_calls = <<>>
    /\ list_failed = FALSE
    /\ response = NotAsked

\* Nothing has been handed to the pure functions.
Pending == [raised |-> FALSE, brk |-> FALSE, content |-> "<pending>"]
ExtractIdle ==
    /\ e_payload = Leaf("text/plain", NoData)
    /\ e_filter = NoFilter
    /\ e_out = Pending

NameIdle ==
    /\ n_essay = ConvertRaises
    /\ n_out = <<>>

Unbuilt == <<"<", "u", "n", "b", "u", "i", "l", "t", ">">>
QueryIdle ==
    /\ q_given = <<>>
    /\ q_out = Unbuilt

PureIdle == ExtractIdle /\ NameIdle /\ QueryIdle

\* What a query method returned: a list, a number, or a model or None.
Result(kind, models, number, none) ==
    [kind |-> kind, models |-> models, number |-> number, none |-> none]
NoResult == Result("none", <<>>, 0, FALSE)

CatalogIdle ==
    /\ mq_models = <<>>
    /\ mq_filters = <<>>
    /\ mq_call = "none"
    /\ mq_fetched = <<>>
    /\ mq_result = NoResult

MainIdle ==
    /\ m_pc = "off"
    /\ m_command = "none"
    /\ m_exit = "none"
    /\ token_pickle = "absent"
    /\ credentials_json = FALSE

\* ------------------------------------------------------ download_email_batch
FilesPresent(files) == {id \in Ids : files[id] /= NoFile}

\* Mutant: the existence test is dropped, every identifier is fetched again.
AlreadyDownloaded_Never(files, msg_id) == FALSE

\* Mutant: a record file left incomplete is downloaded again.
AlreadyDownloaded_OnlyComplete(files, msg_id) == files[msg_id].kind = "record"

\* email_file.exists() (the idempotency marker)
AlreadyDownloaded(files, msg_id) == files[msg_id] /= NoFile

\* Mutant: the file is opened before the message is processed, so a decode
\* error leaves an empty file behind.
FetchAndOpen_OpenFirst(files, msg_id, resp, open_ok) ==
    IF resp = HttpError
    THEN [files |-> files, outcome |-> "fetch_error", pending |-> NoFile]
    ELSE IF ~open_ok
    THEN [files |-> files, outcome |-> "open_error", pending |-> NoFile]
    ELSE LET p == process_email_for_storage(resp)
         IN  IF p.raised
             THEN [files |-> [files EXCEPT ![msg_id] = Partial],
                   outcome |-> "decode_error", pending |-> NoFile]
             ELSE [files |-> [files EXCEPT ![msg_id] = Partial],
                   outcome |-> "opened", pending |-> p.record]

\* get(format='full'), process_email_for_storage, open(email_file, 'w'):
\* everything of one iteration up to the moment the file is open for writing.
FetchAndOpen(files, msg_id, resp, open_ok) ==
    IF resp = HttpError
    THEN [files |-> files, outcome |-> "fetch_error", pending |-> NoFile]
    ELSE LET p == process_email_for_storage(resp)
         IN  IF p.raised
             THEN [files |-> files, outcome |-> "decode_error", pending |-> NoFile]
             ELSE IF ~open_ok
             THEN [files |-> files, outcome |-> "open_error", pending |-> NoFile]
             ELSE [files |-> [files EXCEPT ![msg_id] = Partial],
                   outcome |-> "opened", pending |-> p.record]

DownloadIdle ==
    /\ d_pc = "idle"
    /\ d_ids = <<>>
    /\ d_idx = 0
    /\ dry_run = FALSE
    /\ d_outcome = "none"
    /\ d_pending = NoFile
    /\ get_log = <<>>
    /\ start_files = {}
    /\ d_clean = TRUE
    /\ d_repeat = "no"

InitDownload ==
    /\ raw_emails = [id \in Ids |-> NoFile]
    /\ raw_dir_exists = FALSE
    /\ DownloadIdle
    /\ ConvertIdle
    /\ RetrieveIdle
    /\ PureIdle
    /\ MainIdle
    /\ CatalogIdle

\* A run that makes the output directory whatever its mode.
MakesDirectory_Always(dry) == TRUE

\* output_path.mkdir(parents=True, exist_ok=True) comes after the dry-run
\* branch has returned.
MakesDirectory(dry) == ~dry

\* download_email_batch is called (a new process, or after a finished run).
DownloadStart(ids, dry) ==
    /\ d_pc \in {"idle", "done"}
    /\ d_ids' = ids
    /\ d_idx' = 0
    /\ dry_run' = dry
    /\ d_outcome' = "none"
    /\ d_pending' = NoFile
    /\ get_log' = <<>>
    /\ start_files' = FilesPresent(raw_emails)
    /\ d_clean' = TRUE
    /\ d_repeat' = IF d_pc = "done" /\ ~dry_run /\ ~dry /\ ids = d_ids
                    THEN (IF d_clean THEN "after_clean" ELSE "after_errors")
                    ELSE "no"
    /\ d_pc' = IF dry THEN "preview" ELSE "running"
    /\ raw_dir_exists' = (raw_dir_exists \/ MakesDirectory(dry))
    /\ UNCHANGED <<raw_emails, convertVars, retrieveVars, pureVars, mainVars, catalogVars>>

\* "Skipping {msg_id} (already downloaded)"; continue
DownloadSkip ==
    /\ d_pc = "running"
    /\ d_idx < Len(d_ids)
    /\ AlreadyDownloaded(raw_emails, d_ids[d_idx + 1])
    /\ d_idx' = d_idx + 1
    /\ d_outcome' = "skipped"
    /\ UNCHANGED <<raw_emails, raw_dir_exists, convertVars, retrieveVars, pureVars, mainVars, d_pc, d_ids, dry_run,
                   d_pending, get_log, start_files, d_clean, d_repeat, catalogVars>>

\* The iteration of an identifier without a record file, up to the open.
DownloadFetch ==
    /\ d_pc = "running"
    /\ d_idx < Len(d_ids)
    /\ ~AlreadyDownloaded(raw_emails, d_ids[d_idx + 1])
    /\ \E resp \in GetResponses, open_ok \in BOOLEAN :
         LET msg_id == d_ids[d_idx + 1]
             r == FetchAndOpen(raw_emails, msg_id, resp, open_ok)
         IN  /\ raw_emails' = r.files
             /\ get_log' = Append(get_log, <<msg_id, "full">>)
             /\ d_outcome' = r.outcome
             /\ d_pending' = r.pending
             /\ IF r.outcome = "opened"
                THEN d_pc' = "writing" /\ d_idx' = d_idx /\ d_clean' = d_clean
                ELSE d_pc' = "running" /\ d_idx' = d_idx + 1 /\ d_clean' = FALSE
    /\ UNCHANGED <<raw_dir_exists, convertVars, retrieveVars, pureVars, mainVars, d_ids, dry_run, start_files, d_repeat, catalogVars>>

\* json.dump(processed_message, f, ...) and the close of the file: the record
\* is complete, or json.dump raised part-way and the except clause goes on.
DownloadDump ==
    /\ d_pc = "writing"
    /\ \E dump_ok \in BOOLEAN :
         /\ raw_emails' = [raw_emails EXCEPT ![d_ids[d_idx + 1]] =
                              IF dump_ok THEN d_pending ELSE Partial]
         /\ d_outcome' = IF dump_ok THEN "written" ELSE "dump_error"
    /\ d_pc' = "running"
    /\ d_idx' = d_idx + 1
    /\ d_pending' = NoFile
    /\ UNCHANGED <<raw_dir_exists, convertVars, retrieveVars, pureVars, mainVars, d_ids, dry_run, get_log, start_files,
                   d_clean, d_repeat, catalogVars>>

\* The loops are exhausted: download_email_batch returns.
DownloadReturn ==
    /\ d_pc = "running"
    /\ d_idx = Len(d_ids)
    /\ d_pc' = "done"
    /\ UNCHANGED <<raw_emails, raw_dir_exists, convertVars, retrieveVars, pureVars, mainVars, d_ids, d_idx, dry_run,
                   d_outcome, d_pending, get_log, start_files, d_clean, d_repeat, catalogVars>>

\* Dry run: one metadata get of the preview loop; an error is printed.
PreviewItem ==
    /\ d_pc = "preview"
    /\ d_idx < Min(PreviewCount, Len(d_ids))
    /\ \E ok \in BOOLEAN :
          /\ d_outcome' = IF ok THEN "previewed" ELSE "preview_error"
          /\ d_clean' = (d_clean /\ ok)
    /\ get_log' = Append(get_log, <<d_ids[d_idx + 1], "metadata">>)
    /\ d_idx' = d_idx + 1
    /\ UNCHANGED <<raw_emails, raw_dir_exists, convertVars, retrieveVars, pureVars, mainVars, d_pc, d_ids, dry_run,
                   d_pending, start_files, d_repeat, catalogVars>>

PreviewReturn ==
    /\ d_pc = "preview"
    /\ d_idx = Min(PreviewCount, Len(d_ids))
    /\ d_pc' = "done"
    /\ UNCHANGED <<raw_emails, raw_dir_exists, convertVars, retrieveVars, pureVars, mainVars, d_ids, d_idx, dry_run,
                   d_outcome, d_pending, get_log, start_files, d_clean, d_repeat, catalogVars>>

\* The process is terminated (the only cancellation there is): its memory is
\* gone, the files stay as they are.
Interrupt ==
    /\ d_pc \in {"running", "writing", "preview"}
    /\ d_pc' = "idle"
    /\ d_ids' = <<>>
    /\ d_idx' = 0
    /\ dry_run' = FALSE
    /\ d_outcome' = "none"
    /\ d_pending' = NoFile
    /\ get_log' = <<>>
    /\ start_files' = {}
    /\ d_clean' = TRUE
    /\ d_repeat' = "no"
    /\ UNCHANGED <<raw_emails, raw_dir_exists, convertVars, retrieveVars, pureVars, mainVars, catalogVars>>

NextDownload ==
    \/ \E ids \in SeqsUpTo(Ids, MaxLen), dry \in BOOLEAN : DownloadStart(ids, dry)
    \/ DownloadSkip
    \/ DownloadFetch
    \/ DownloadDump
    \/ DownloadReturn
    \/ PreviewItem
    \/ PreviewReturn
    \/ Interrupt

SpecDownload == InitDownload /\ [][NextDownload]_vars

\* ------------------------------------------------------------ download claims
FullGets(log, id) == Cardinality({i \in 1..Len(log) : log[i] = <<id, "full">>})
SecondRunDone == d_pc = "done" /\ d_repeat /= "no"
ItemErrors == {"fetch_error", "decode_error"}

\* C1 as stated: after the second of two successive runs over the same
\* identifier sequence the set of record files is that of the first run and
\* the second run has issued no get call.
C1_AsStated ==
    SecondRunDone => (get_log = <<>> /\ FilesPresent(raw_emails) = start_files)

\* C1 amended: the second run fetches only identifiers that had no record file
\* after the first run and removes no record file; when the first run met no
\* fetch, decode or open error, the second run issues no get call at all and
\* the set of record files stays that of the first run.
C1_SecondRun ==
    SecondRunDone =>
        /\ \A i \in 1..Len(get_log) : get_log[i][1] \notin start_files
        /\ start_files \subseteq FilesPresent(raw_emails)
        /\ d_repeat = "after_clean" =>
              (get_log = <<>> /\ FilesPresent(raw_emails) = start_files)

C1_Witness ==
    /\ SecondRunDone
    /\ d_repeat = "after_clean"
    /\ Len(d_ids) = MaxLen
    /\ \A i \in 1..Len(d_ids) : raw_emails[d_ids[i]].kind = "record"
    /\ get_log = <<>>

\* C2: once an identifier's record file exists, no step of any run issues a
\* full get for it or changes its file (the one write that created the file
\* may still be completing it).
C2_WrittenOnce ==
    [][\A id \in Ids :
          (raw_emails[id] /= NoFile /\ ~(d_pc = "writing" /\ d_ids[d_idx + 1] = id)) =>
              /\ raw_emails'[id] = raw_emails[id]
              /\ FullGets(get_log', id) <= FullGets(get_log, id)]_vars

\* A duplicate identifier within one sequence: fetched and written once, then skipped.
C2_Witness ==
    /\ d_pc = "running"
    /\ Len(d_ids) = 2
    /\ d_ids[1] = d_ids[2]
    /\ d_idx = 2
    /\ d_outcome = "skipped"
    /\ FullGets(get_log, d_ids[1]) = 1
    /\ raw_emails[d_ids[1]].kind = "record"

\* C3 as stated: whenever no write is in progress (the process was
\* interrupted, or the run finished) every file under raw_emails is a
\* complete record.
C3_NoPartialFile ==
    d_pc \in {"idle", "done"} => \A id \in Ids : raw_emails[id] /= Partial

\* C4: an iteration whose fetch or decoding raises creates no file and goes
\* on with the next identifier, and a run returns only after the last one.
C4_ErrorIsolated ==
    [][/\ (d_pc = "running" /\ get_log' /= get_log /\ d_outcome' \in ItemErrors) =>
            (raw_emails' = raw_emails /\ d_pc' = "running" /\ d_idx' = d_idx + 1)
       /\ (d_pc = "running" /\ d_pc' = "done") => d_idx = Len(d_ids)]_vars

\* The first identifier failed to decode and the second was still written.
C4_Witness ==
    /\ d_pc = "done"
    /\ ~dry_run
    /\ Len(d_ids) = 2
    /\ d_ids[1] /= d_ids[2]
    /\ Len(get_log) = 2
    /\ raw_emails[d_ids[1]] = NoFile
    /\ raw_emails[d_ids[2]].kind = "record"
    /\ d_outcome = "written"

\* ------------------------------------------------- conversion stage: actions
\* The orders in which glob("*.json") may list the record files.
GlobOrders(files) ==
    LET present == FilesPresent(files)
    IN  {q \in SeqsUpTo(present, Cardinality(present)) :
            Len(q) = Cardinality(present) /\ \A i, j \in 1..Len(q) : i /= j => q[i] /= q[j]}

InitConvert ==
    /\ raw_emails \in [Ids -> {NoFile, Partial} \cup StorableRecords]
    /\ raw_dir_exists = TRUE
    /\ DownloadIdle
    /\ ConvertIdle
    /\ RetrieveIdle
    /\ PureIdle
    /\ MainIdle
    /\ CatalogIdle

\* convert_emails_to_markdown is called: the record files are listed.
ConvertStart ==
    /\ c_pc \in {"idle", "done"}
    /\ d_pc \in {"idle", "done"}
    /\ json_files' \in GlobOrders(raw_emails)
    /\ c_pc' = "running"
    /\ c_idx' = 0
    /\ successful' = 0
    /\ failed' = 0
    /\ conv_calls' = 0
    /\ c_outcome' = "none"
    /\ arts_at_start' = artifacts
    /\ c_second' = (c_pc = "done")
    /\ UNCHANGED <<downloadVars, retrieveVars, pureVars, mainVars, artifacts, catalogVars>>

\* One iteration of the loop over json_files.
ConvertItem ==
    /\ c_pc = "running"
    /\ c_idx < Len(json_files)
    /\ \E answer \in ConverterAnswers, wr \in WriteOutcomes :
         LET r == ConvertRecord(raw_emails[json_files[c_idx + 1]], artifacts, answer, wr)
         IN  /\ artifacts' = r.arts
             /\ c_outcome' = r.outcome
             /\ conv_calls' = conv_calls + r.called
             /\ successful' = successful + r.succ
             /\ failed' = failed + r.fail
    /\ c_idx' = c_idx + 1
    /\ UNCHANGED <<downloadVars, retrieveVars, pureVars, mainVars, c_pc, json_files, arts_at_start, c_second, catalogVars>>

\* "Conversion complete! Success: ..., Failed: ..."
ConvertReturn ==
    /\ c_pc = "running"
    /\ c_idx = Len(json_files)
    /\ c_pc' = "done"
    /\ UNCHANGED <<downloadVars, retrieveVars, pureVars, mainVars, artifacts, json_files, c_idx, successful, failed,
                   conv_calls, c_outcome, arts_at_start, c_second, catalogVars>>

NextConvert ==
    \/ ConvertStart
    \/ ConvertItem
    \/ ConvertReturn

SpecConvert == InitConvert /\ [][NextConvert]_vars

\* --------------------------------------------------------- conversion claims
\* C5 as stated: a second conversion run over the same record files leaves
\* the artifact files and their contents as the first run left them.
C5_SecondRunSameArtifacts ==
    (c_pc = "done" /\ c_second) => artifacts = arts_at_start

\* C6 as stated: the iteration that skips a record because its artifact file
\* exists does not invoke the converter.
C6_AsStated ==
    [][(c_pc = "running" /\ c_idx' = c_idx + 1 /\ c_outcome' = "skipped_exists") =>
          conv_calls' = conv_calls]_vars

\* The record files among the first n listed that json.load can read.
Readable(n) == {i \in 1..n : raw_emails[json_files[i]].kind = "record"}

\* C6 amended: a record whose derived artifact file exists is skipped without
\* a write, but after the converter was invoked for it: the converter has
\* been invoked once for every record file read so far, converted or not.
C6_ConverterCalls ==
    c_pc \in {"running", "done"} => conv_calls = Cardinality(Readable(c_idx))

\* A second run in which the only record was skipped, after one invocation.
C6_Witness ==
    /\ c_pc = "done"
    /\ c_second
    /\ c_outcome = "skipped_exists"
    /\ Len(json_files) = 1
    /\ conv_calls = 1
    /\ artifacts = arts_at_start

\* C7 as stated: the iteration in which the converter fails counts the record
\* as failed, writes no artifact and goes on.
C7_ConverterFailureCounted ==
    [][(c_pc = "running" /\ c_idx' = c_idx + 1 /\ c_outcome' = "convert_failed") =>
          (failed' = failed + 1 /\ artifacts' = artifacts /\ c_pc' = "running")]_vars

\* C8: an artifact file that exists is never changed by any step.
C8_ArtifactImmutable ==
    [][\A n \in ArtifactNames :
          artifacts[n] /= NoArtifact => artifacts'[n] = artifacts[n]]_vars

\* Two records of one run resolved to the same filename: the first wrote it,
\* the second was skipped and the content is still the first's.
C8_Witness ==
    /\ c_pc = "running"
    /\ ~c_second
    /\ c_idx = 2
    /\ successful = 1
    /\ c_outcome = "skipped_exists"
    /\ raw_emails[json_files[1]].text /= raw_emails[json_files[2]].text
    /\ \E n \in ArtifactNames :
         /\ artifacts[n] /= NoArtifact
         /\ artifacts[n][2] = raw_emails[json_files[1]].text
         /\ \A m \in ArtifactNames \ {n} : artifacts[m] = NoArtifact

\* ---------------------------------------------------- get_message_ids: actions
InitRetrieve ==
    /\ raw_emails = [id \in Ids |-> NoFile]
    /\ raw_dir_exists = FALSE
    /\ DownloadIdle
    /\ ConvertIdle
    /\ svc_pages \in Services
    /\ args \in {Args(c, n, f) : c \in CriteriaPool, n \in {NoMax} \cup 0..MaxN, f \in BOOLEAN}
    /\ r_pc = "idle"
    /\ message_ids = <<>>
    /\ next_page_token = NoToken
    /\ list_calls = <<>>
    /\ list_failed = FALSE
    /\ response = NotAsked
    /\ PureIdle
    /\ MainIdle
    /\ CatalogIdle

\* get_message_ids up to the loop: the query is built; an empty query needs
\* --force or a 'y' at the prompt, else [] is returned.
RetrieveStart ==
    /\ r_pc = "idle"
    /\ IF Prompts(build_gmail_query(args), args.force)
       THEN \E typed \in Responses :
                /\ response' = typed
                /\ r_pc' = IF Declined(typed) THEN "done" ELSE "loop"
       ELSE response' = NotAsked /\ r_pc' = "loop"
    /\ message_ids' = <<>>
    /\ next_page_token' = NoToken
    /\ UNCHANGED <<downloadVars, convertVars, pureVars, mainVars, svc_pages, args, list_calls,
                   list_failed, catalogVars>>

\* One iteration of the while loop: the list call returns a page.
ListPage ==
    /\ r_pc = "loop"
    /\ LET token == PageTokenParam(next_page_token)
           r == AfterPage(message_ids, args, ServicePage(svc_pages, token))
       IN  /\ list_calls' = Append(list_calls,
                                   [pageToken |-> token, maxResults |-> MaxResultsParam(args)])
           /\ message_ids' = r.message_ids
           /\ next_page_token' = r.next_page_token
           /\ r_pc' = r.pc
    /\ UNCHANGED <<downloadVars, convertVars, pureVars, mainVars, svc_pages, args, list_failed,
                   response, catalogVars>>

\* One iteration of the while loop: the list call raises; break.
ListRaises ==
    /\ r_pc = "loop"
    /\ list_calls' = Append(list_calls,
                            [pageToken |-> PageTokenParam(next_page_token),
                             maxResults |-> MaxResultsParam(args)])
    /\ LET r == OnListError(message_ids)
       IN  message_ids' = r.message_ids /\ r_pc' = r.pc
    /\ list_failed' = TRUE
    /\ UNCHANGED <<downloadVars, convertVars, pureVars, mainVars, svc_pages, args, next_page_token,
                   response, catalogVars>>

NextRetrieve ==
    \/ RetrieveStart
    \/ ListPage
    \/ ListRaises

SpecRetrieve == InitRetrieve /\ [][NextRetrieve]_vars

\* ------------------------------------------------------------ retriever claims
\* The loop was entered and no list call raised.
Listed == list_calls /= <<>> /\ ~list_failed

\* C9: with no maximum, against k pages with a cursor and a last one without,
\* k+1 list calls are made, each asking for the default page size, the first
\* without a token and every later one with the cursor the previous call
\* returned, and the result is the concatenation of the pages in service order.
C9_PaginationTerminates ==
    /\ \A i \in 2..Len(list_calls) :
         list_calls[i].pageToken = ServicePage(svc_pages, list_calls[i - 1].pageToken).cursor
    /\ (r_pc = "done" /\ Listed /\ ~Truthy(args.max_results)) =>
         /\ Len(list_calls) = Len(svc_pages)
         /\ list_calls[1].pageToken = NoToken
         /\ \A i \in 1..Len(list_calls) : list_calls[i].maxResults = DefaultPageSize
         /\ message_ids = ConcatIds(svc_pages)

\* Three full pages with a cursor, then a page without: four calls.
C9_Witness ==
    /\ r_pc = "done"
    /\ Listed
    /\ args.max_results = NoMax
    /\ Len(svc_pages) = 4
    /\ \A i \in 1..3 : Len(svc_pages[i].ids) = MaxPageLen
    /\ Len(list_calls) = 4
    /\ Len(message_ids) = 3 * MaxPageLen + Len(svc_pages[4].ids)

\* C10 as stated: for every maximum N given and every source holding at
\* least N identifiers, the result is the first N identifiers in service order.
C10_FirstN ==
    (r_pc = "done" /\ Listed /\ args.max_results /= NoMax
        /\ Len(ConcatIds(svc_pages)) >= args.max_results) =>
        message_ids = SubSeq(ConcatIds(svc_pages), 1, args.max_results)

\* What holds of the code: the same for every maximum N >= 1, and no list
\* call is issued once the accumulated count has reached N.
C10_FirstN_Positive ==
    (r_pc = "done" /\ Listed /\ Truthy(args.max_results)
        /\ Len(ConcatIds(svc_pages)) >= args.max_results) =>
        /\ message_ids = SubSeq(ConcatIds(svc_pages), 1, args.max_results)
        /\ Len(ConcatIds(SubSeq(svc_pages, 1, Len(list_calls) - 1))) < args.max_results

\* C11: once a list call has raised, the loop is over (no further call, no
\* retry) and the identifiers returned are those of the pages the earlier
\* calls returned, in order.
C11_ErrorReturnsAccumulated ==
    list_failed =>
        /\ r_pc = "done"
        /\ message_ids = ConcatIds(SubSeq(svc_pages, 1, Len(list_calls) - 1))

\* The third call raised after two pages that held identifiers.
C11_Witness ==
    /\ list_failed
    /\ r_pc = "done"
    /\ Len(list_calls) = 3
    /\ Len(svc_pages[1].ids) > 0
    /\ Len(svc_pages[2].ids) > 0
    /\ Len(message_ids) = Len(svc_pages[1].ids) + Len(svc_pages[2].ids)

AllUnset(a) ==
    a.sender = <<>> /\ a.subject = <<>> /\ a.after = <<>> /\ a.before = <<>> /\ a.query = <<>>

\* C12: criteria with every field unset compile to the empty query, and with
\* an empty query a list call is issued only under --force or after a 'y' at
\* the prompt; without either the empty sequence is returned.
C12_EmptyQueryGate ==
    /\ AllUnset(args) => build_gmail_query(args) = <<>>
    /\ (build_gmail_query(args) = <<>> /\ list_calls /= <<>>) =>
         (args.force \/ Lower(response) = "y")
    /\ (r_pc = "done" /\ build_gmail_query(args) = <<>> /\ ~args.force
            /\ Lower(response) /= "y") =>
         (message_ids = <<>> /\ list_calls = <<>>)

\* The user answered 'n' to the prompt of an unscoped fetch of a mailbox that
\* holds identifiers.
C12_Witness ==
    /\ r_pc = "done"
    /\ AllUnset(args)
    /\ ~args.force
    /\ response = "n"
    /\ Len(svc_pages[1].ids) > 0
    /\ list_calls = <<>>
    /\ message_ids = <<>>

\* ------------------------------------------- the extractor on payload trees
MaxNodes == 5       \* most parts (the payload itself included) in one tree

\* Leaves of a Gmail payload: two plain-text bodies, one HTML body and an
\* attachment whose body carries no inline data.
LeafPool ==
    { Leaf("text/plain", "UA=="), Leaf("text/plain", "UTI="),
      Leaf("text/html", "SA=="), Leaf("image/png", NoData) }

RECURSIVE Trees(_)
RECURSIVE Forests(_)

\* The payload trees of exactly n parts, and the part lists of m parts in all.
Trees(n) ==
    IF n = 1 THEN LeafPool
    ELSE { Multi("multipart/mixed", f) : f \in Forests(n - 1) }

Forests(m) ==
    IF m = 0 THEN { <<>> }
    ELSE UNION { { <<t>> \o f : t \in Trees(k), f \in Forests(m - k) } : k \in 1..m }

Payloads == UNION { Trees(n) : n \in 1..MaxNodes }
Filters == { NoFilter, "text/plain", "text/html" }

InitExtract ==
    /\ raw_emails = [id \in Ids |-> NoFile]
    /\ raw_dir_exists = FALSE
    /\ DownloadIdle
    /\ ConvertIdle
    /\ RetrieveIdle
    /\ e_payload \in Payloads
    /\ e_filter \in Filters
    /\ e_out = Pending
    /\ NameIdle
    /\ QueryIdle
    /\ MainIdle
    /\ CatalogIdle

\* content = extract_content_from_payload(payload, mime_type_filter)
ExtractCall ==
    /\ e_out = Pending
    /\ e_out' = extract_content_from_payload(e_payload, e_filter)
    /\ UNCHANGED <<e_payload, e_filter, n_essay, n_out, q_given, q_out, downloadVars, convertVars,
                   retrieveVars, mainVars, catalogVars>>

NextExtract == ExtractCall

SpecExtract == InitExtract /\ [][NextExtract]_vars

\* ------------------------------------------------- claims on the extractor
RECURSIVE Preorder(_)
RECURSIVE PreorderAll(_, _)

\* The parts of a payload tree in depth-first, left-to-right order.
Preorder(t) == <<t>> \o PreorderAll(t.parts, 1)
PreorderAll(parts, i) ==
    IF i > Len(parts) THEN <<>> ELSE Preorder(parts[i]) \o PreorderAll(parts, i + 1)

\* The parts of type mime that carry inline data, in that order.
WithData(t, mime) ==
    SelectSeq(Preorder(t), LAMBDA p : p.mimeType = mime /\ p.data /= NoData)

\* The decoded contents of those parts.
Contents(t, mime) ==
    { Decode(WithData(t, mime)[i].data).content : i \in 1..Len(WithData(t, mime)) }

Extracted == e_out /= Pending

\* C13: with no filter, a payload tree holding an HTML part with data and a
\* plain-text part with data, in any order and at any depth, yields the
\* decoded HTML content.
C13_HtmlPreferred ==
    (/\ Extracted
     /\ e_filter = NoFilter
     /\ Contents(e_payload, "text/html") /= {}
     /\ Contents(e_payload, "text/plain") /= {})
        => (~e_out.raised /\ e_out.content \in Contents(e_payload, "text/html"))

\* C14: with no filter, a payload tree holding a plain-text part with data and
\* no HTML part with data yields the content of a plain-text part, whatever
\* follows that part among its siblings.
C14_PlainReturned ==
    (/\ Extracted
     /\ e_filter = NoFilter
     /\ Contents(e_payload, "text/plain") /= {}
     /\ Contents(e_payload, "text/html") = {})
        => (~e_out.raised /\ e_out.content \in Contents(e_payload, "text/plain"))

\* C15: with a filter F the result is the empty string or the decoded data of
\* a part of type F; with filter text/plain and both a plain-text and an HTML
\* part present, the result is plain-text content.
C15_FilterRespected ==
    (Extracted /\ e_filter /= NoFilter) =>
        /\ ~e_out.raised
        /\ e_out.content \in {""} \cup Contents(e_payload, e_filter)
        /\ (/\ e_filter = "text/plain"
            /\ Contents(e_payload, "text/plain") /= {}
            /\ Contents(e_payload, "text/html") /= {})
               => e_out.content \in Contents(e_payload, "text/plain")

\* The HTML part comes first and the plain-text filter still gets the text.
C15_Witness ==
    /\ Extracted
    /\ e_filter = "text/plain"
    /\ e_payload = Multi("multipart/mixed",
                         <<Leaf("text/html", "SA=="), Leaf("text/plain", "UA==")>>)
    /\ e_out = Ok("P")

TopLevelContainers(t) ==
    t.hasParts /\ t.parts /= <<>> /\ \A i \in 1..Len(t.parts) : t.parts[i].hasParts

FirstMatch(t, mime) ==
    IF WithData(t, mime) = <<>> THEN "" ELSE Decode(WithData(t, mime)[1].data).content

\* C16: for a payload whose top-level parts are all multipart containers, a
\* filtered call returns the content of the first matching leaf with data in
\* depth-first, left-to-right order; no later match replaces it.
C16_FirstMatchDepthFirst ==
    (Extracted /\ e_filter /= NoFilter /\ TopLevelContainers(e_payload)) =>
        e_out = Ok(FirstMatch(e_payload, e_filter))

\* Two containers, each with a matching leaf: the first one's content comes back.
C16_Witness ==
    /\ Extracted
    /\ e_filter = "text/plain"
    /\ TopLevelContainers(e_payload)
    /\ Len(e_payload.parts) = 2
    /\ Len(WithData(e_payload, "text/plain")) = 2
    /\ WithData(e_payload.parts[2], "text/plain") /= <<>>
    /\ e_out = Ok("P")

\* ------------------------------------------------ dry runs over long lists
MaxListed == 6      \* longest identifier sequence handed to a dry run

\* The identifier sequences 1..n and n..1.
Ascending(n) == [i \in 1..n |-> i]
Descending(n) == [i \in 1..n |-> n + 1 - i]
ListedSeqs == { Ascending(n) : n \in 0..MaxListed } \cup { Descending(n) : n \in 0..MaxListed }

\* The store is in any state an earlier download can have left it in.
InitPreview ==
    /\ raw_dir_exists \in BOOLEAN
    /\ raw_emails \in [Ids -> {NoFile, Partial} \cup StorableRecords]
    /\ ~raw_dir_exists => raw_emails = [id \in Ids |-> NoFile]
    /\ DownloadIdle
    /\ ConvertIdle
    /\ RetrieveIdle
    /\ PureIdle
    /\ MainIdle
    /\ CatalogIdle

NextPreview ==
    \/ \E ids \in ListedSeqs : DownloadStart(ids, TRUE)
    \/ PreviewItem
    \/ PreviewReturn

SpecPreview == InitPreview /\ [][NextPreview]_vars

\* C17: a dry run leaves the store as it is (no directory, no file, no write),
\* its get calls are metadata gets for the first identifiers of the sequence
\* in order, at most 5 of them and all 5 (or all of a shorter sequence) by
\* the time it returns, whether or not a preview raised.
C17_DryRunFrame ==
    [][ (dry_run' /\ d_pc' \in {"preview", "done"}) =>
            /\ raw_emails' = raw_emails
            /\ raw_dir_exists' = raw_dir_exists
            /\ d_idx' <= Min(5, Len(d_ids'))
            /\ get_log' = [i \in 1..d_idx' |-> <<d_ids'[i], "metadata">>]
            /\ (d_pc' = "done" => d_idx' = Min(5, Len(d_ids'))) ]_vars

\* A dry run over six identifiers of a mailbox not yet downloaded has returned
\* after five previews, one of the earlier ones having raised.
C17_Witness ==
    /\ dry_run
    /\ d_pc = "done"
    /\ Len(d_ids) > 5
    /\ Len(get_log) = 5
    /\ ~d_clean
    /\ d_outcome = "previewed"
    /\ ~raw_dir_exists

\* --------------------------------------------- the filename of one artifact
MaxTitle == 4       \* longest short title tried

TitleChars == {"a", " ", "\t", "?"}

\* A title that reaches the length limit with its last characters still to come.
Filler == [i \in 1..(TitleLimit - 1) |-> "b"]

ExampleTitle ==
    <<"R", "e", ":", " ", "\"", "Q", "1", "/", "Q", "2", "\"", " ",
      "R", "e", "p", "o", "r", "t", "?">>

\* PostTitle values of the converter: short ones, long ones, and one with
\* every kind of hostile punctuation.
Titles ==
    SeqsUpTo(TitleChars, MaxTitle)
        \cup { Filler \o s : s \in SeqsUpTo(TitleChars, MaxTitle) }
        \cup { ExampleTitle }

\* Date values of the converter.
Dates ==
    { [year |-> 2024, month |-> 3, day |-> 5], [year |-> 2005, month |-> 12, day |-> 31],
      [year |-> 1999, month |-> 1, day |-> 10], [year |-> 2024, month |-> 11, day |-> 1] }

InitFilename ==
    /\ raw_emails = [id \in Ids |-> NoFile]
    /\ raw_dir_exists = FALSE
    /\ DownloadIdle
    /\ ConvertIdle
    /\ RetrieveIdle
    /\ ExtractIdle
    /\ QueryIdle
    /\ MainIdle
    /\ CatalogIdle
    /\ n_essay \in { Essay(t, d, "c1") : t \in Titles, d \in Dates }
    /\ n_out = <<>>

\* date_str, clean_title and md_filename of one answer of the converter
DeriveFilename ==
    /\ n_out = <<>>
    /\ n_out' = md_filename(n_essay)
    /\ UNCHANGED <<n_essay, e_payload, e_filter, e_out, q_given, q_out, downloadVars, convertVars,
                   retrieveVars, mainVars, catalogVars>>

NextFilename == DeriveFilename

SpecFilename == InitFilename /\ [][NextFilename]_vars

\* strftime('%-d %b %y') of the dates tried, written out.
ShownDate(date) ==
    CASE date = [year |-> 2024, month |-> 3, day |-> 5] ->
            <<"5", " ", "M", "a", "r", " ", "2", "4">>
      [] date = [year |-> 2005, month |-> 12, day |-> 31] ->
            <<"3", "1", " ", "D", "e", "c", " ", "0", "5">>
      [] date = [year |-> 1999, month |-> 1, day |-> 10] ->
            <<"1", "0", " ", "J", "a", "n", " ", "9", "9">>
      [] date = [year |-> 2024, month |-> 11, day |-> 1] ->
            <<"1", " ", "N", "o", "v", " ", "2", "4">>

\* What stands between "<date> " and ".md" in the derived filename.
TitlePart == SubSeq(n_out, Len(ShownDate(n_essay.Date)) + 2, Len(n_out) - 3)

\* C18: the filename is '<day> <abbreviated month> <2-digit year> <title>.md';
\* its title part has none of <>:"/\|?*, no two adjacent whitespace
\* characters, at most 150 characters, and exactly one space before it.
C18_FilenameShape ==
    n_out /= <<>> =>
        LET d == ShownDate(n_essay.Date)
            t == TitlePart
        IN  /\ Len(n_out) >= Len(d) + 4
            /\ SubSeq(n_out, 1, Len(d)) = d
            /\ n_out[Len(d) + 1] = " "
            /\ SubSeq(n_out, Len(n_out) - 2, Len(n_out)) = <<".", "m", "d">>
            /\ \A i \in 1..Len(t) : t[i] \notin Hostile
            /\ \A i \in 1..(Len(t) - 1) : ~(t[i] \in Whitespace /\ t[i + 1] \in Whitespace)
            /\ Len(t) <= 150
            /\ (t /= <<>> => t[1] \notin Whitespace)

\* A title longer than the limit, with hostile punctuation and a whitespace
\* run, has been cut to exactly 150 characters.
C18_Witness ==
    /\ n_out /= <<>>
    /\ Len(n_essay.PostTitle) > 150
    /\ \E i \in 1..Len(n_essay.PostTitle) : n_essay.PostTitle[i] \in Hostile
    /\ \E i \in 1..(Len(n_essay.PostTitle) - 1) :
          n_essay.PostTitle[i] \in Whitespace /\ n_essay.PostTitle[i + 1] \in Whitespace
    /\ Len(TitlePart) = 150

\* ------------------------------------------ the query of one command line
MaxGiven == 5       \* most options on one command line

Option(flag, value) == [flag |-> flag, value |-> value]

\* Options of the download command, each with the values tried for it.
Options ==
    { Option("sender", <<"*", "@", "x", "?">>), Option("sender", <<"a", "@", "x">>),
      Option("subject", <<"M", " ", "S">>), Option("subject", <<"\"", "M", "\"">>),
      Option("after", <<"2", "4", "-", "1", "-", "1">>),
      Option("before", <<"2", "4", "/", "9", "/", "9">>),
      Option("days", <<"3", "0">>),
      Option("query", <<"h", ":", "a", " ", "l", ":", "5">>) }

\* Command lines of up to n options in any order, no flag twice.
RECURSIVE LinesUpTo(_)
LinesUpTo(n) ==
    IF n = 0 THEN { <<>> }
    ELSE LET shorter == LinesUpTo(n - 1)
         IN  shorter \cup
             UNION { { Append(g, o) :
                         o \in { p \in Options : \A i \in 1..Len(g) : g[i].flag /= p.flag } } :
                     g \in { h \in shorter : Len(h) = n - 1 } }

CommandLines == LinesUpTo(MaxGiven)

\* The value argparse stores for a flag: the one typed, or None.
Given(g, flag) ==
    IF \E i \in 1..Len(g) : g[i].flag = flag
    THEN g[CHOOSE i \in 1..Len(g) : g[i].flag = flag].value
    ELSE <<>>

\* (datetime.now() - timedelta(days=args.days)).strftime('%Y/%m/%d')
DaysAgo(days) == <<"2", "6", "/", "1", "0", "/", "3">>

\* str.replace('-', '/')
Slashes(date) == [i \in 1..Len(date) |-> IF date[i] = "-" THEN "/" ELSE date[i]]

\* parse_arguments: --days overrides --after, then the dates are normalised.
parse_arguments(g) ==
    Args(Criteria(Given(g, "sender"),
                  Given(g, "subject"),
                  Slashes(IF Given(g, "days") /= <<>> THEN DaysAgo(Given(g, "days"))
                          ELSE Given(g, "after")),
                  Slashes(Given(g, "before")),
                  Given(g, "query")),
         NoMax, FALSE)

InitQuery ==
    /\ raw_emails = [id \in Ids |-> NoFile]
    /\ raw_dir_exists = FALSE
    /\ DownloadIdle
    /\ ConvertIdle
    /\ RetrieveIdle
    /\ ExtractIdle
    /\ NameIdle
    /\ MainIdle
    /\ CatalogIdle
    /\ q_given \in CommandLines
    /\ q_out = Unbuilt

\* args = parse_arguments(); query = build_gmail_query(args)
BuildQuery ==
    /\ q_out = Unbuilt
    /\ args' = parse_arguments(q_given)
    /\ q_out' = build_gmail_query(args')
    /\ UNCHANGED <<q_given, e_payload, e_filter, e_out, n_essay, n_out, downloadVars, convertVars,
                   mainVars, svc_pages, r_pc, message_ids, next_page_token, list_calls,
                   list_failed, response, catalogVars>>

NextQuery == BuildQuery

SpecQuery == InitQuery /\ [][NextQuery]_vars

\* The criteria in the order their clauses must come out in.
FixedOrder == <<"sender", "subject", "after", "before", "query">>

\* The criteria of a that were supplied, in that order.
Supplied(a) == SelectSeq(FixedOrder, LAMBDA f : a[f] /= <<>>)

\* The clause of one supplied criterion.
Clause(a, f) ==
    CASE f = "sender" ->
            <<"f", "r", "o", "m", ":">> \o SelectSeq(a.sender, LAMBDA c : c \notin {"*", "?"})
      [] f = "subject" ->
            IF \E i \in 1..Len(a.subject) : a.subject[i] = "\""
            THEN <<"s", "u", "b", "j", "e", "c", "t", ":">> \o a.subject
            ELSE <<"s", "u", "b", "j", "e", "c", "t", ":", "\"">> \o a.subject \o <<"\"">>
      [] f = "after" -> <<"a", "f", "t", "e", "r", ":">> \o a.after
      [] f = "before" -> <<"b", "e", "f", "o", "r", "e", ":">> \o a.before
      [] f = "query" -> a.query

RECURSIVE SpaceJoined(_, _)
SpaceJoined(a, fs) ==
    IF fs = <<>> THEN <<>>
    ELSE IF Len(fs) = 1 THEN Clause(a, fs[1])
    ELSE Clause(a, fs[1]) \o <<" ">> \o SpaceJoined(a, Tail(fs))

\* C20: the query is empty when no criterion is supplied, and otherwise the
\* clauses of exactly the supplied criteria, single-spaced, in the order
\* sender, subject, after, before, free-form fragment, whatever order the
\* options were typed in; wildcards are dropped from the sender and the subject
\* is quoted unless it holds a quote.
C20_QueryShape ==
    q_out /= Unbuilt =>
        /\ \A i \in 1..Len(q_given) :
              q_given[i].flag \in {"sender", "subject", "query"}
                  => args[q_given[i].flag] = q_given[i].value
        /\ \A f \in {"sender", "subject", "before", "query"} :
              (\A i \in 1..Len(q_given) : q_given[i].flag /= f) => args[f] = <<>>
        /\ Supplied(args) = <<>> => q_out = <<>>
        /\ q_out = SpaceJoined(args, Supplied(args))

\* All five criteria typed with the free-form fragment first and the sender
\* last, the sender holding wildcards and the subject no quote.
C20_Witness ==
    /\ q_out /= Unbuilt
    /\ Len(q_given) = 5
    /\ q_given[1].flag = "query"
    /\ q_given[5] = Option("sender", <<"*", "@", "x", "?">>)
    /\ \E i \in 1..5 : q_given[i] = Option("subject", <<"M", " ", "S">>)
    /\ Len(Supplied(args)) = 5
    /\ SubSeq(q_out, 1, 8) = <<"f", "r", "o", "m", ":", "@", "x", " ">>

\* ------------------------------------------------------------------- main
\* token.pickle: absent, or holding credentials that are valid, expired with
\* a refresh token, or unusable (invalid without a refresh token).
TokenStates == {"absent", "valid", "expired", "stale"}

\* A set-up that builds the service without looking for credentials.json.
setup_gmail_api_NoCheck(tok, cred) ==
    [service |-> TRUE, token |-> "valid"]

\* setup_gmail_api when nothing raises: the service (or None) it returns and
\* token.pickle as it leaves it.
setup_gmail_api(tok, cred) ==
    IF tok = "valid" THEN [service |-> TRUE, token |-> tok]
    ELSE IF tok = "expired" THEN [service |-> TRUE, token |-> "valid"]
    ELSE IF ~cred THEN [service |-> FALSE, token |-> tok]
    ELSE [service |-> TRUE, token |-> "valid"]

\* creds.refresh(Request()) or the OAuth flow is reached and may raise.
SetupMayRaise(tok, cred) == tok = "expired" \/ (tok \in {"absent", "stale"} /\ cred)

\* os.path.exists(input_dir), the input directory being the raw_emails one.
InputDirMissing(exists) == ~exists

MaxMailboxPages == 2    \* most pages of the mailbox a whole download command runs over

\* Mailboxes of few pages whose identifiers all have a place in the modelled store.
SmallServices ==
    { s \in Services :
        /\ Len(s) <= MaxMailboxPages
        /\ \A i \in 1..Len(ConcatIds(s)) : ConcatIds(s)[i] \in Ids }

\* What the download command starts from: any mailbox, criteria and
\* credentials, the store empty or as an interrupted run left it.
InitMainDownload ==
    /\ m_command = "download"
    /\ raw_dir_exists \in BOOLEAN
    /\ raw_emails \in [Ids -> {NoFile, Partial}]
    /\ ~raw_dir_exists => raw_emails = [id \in Ids |-> NoFile]
    /\ svc_pages \in SmallServices
    /\ args \in {Args(c, NoMax, f) : c \in CriteriaPool, f \in BOOLEAN}
    /\ token_pickle \in TokenStates
    /\ credentials_json \in BOOLEAN

\* What the convert command starts from: any store; it uses no mailbox.
InitMainConvert ==
    /\ m_command = "convert"
    /\ raw_dir_exists \in BOOLEAN
    /\ raw_emails \in [Ids -> {NoFile} \cup StorableRecords]
    /\ ~raw_dir_exists => raw_emails = [id \in Ids |-> NoFile]
    /\ svc_pages = <<>>
    /\ args = Args(Criteria(<<>>, <<>>, <<>>, <<>>, <<>>), NoMax, FALSE)
    /\ token_pickle = "absent"
    /\ credentials_json = FALSE

InitMain ==
    /\ InitMainDownload \/ InitMainConvert
    /\ DownloadIdle
    /\ ConvertIdle
    /\ r_pc = "idle"
    /\ message_ids = <<>>
    /\ next_page_token = NoToken
    /\ list_calls = <<>>
    /\ list_failed = FALSE
    /\ response = NotAsked
    /\ PureIdle
    /\ CatalogIdle
    /\ m_pc = "start"
    /\ m_exit = "none"

\* service = setup_gmail_api(); if not service: return
MainSetup ==
    /\ m_pc = "start"
    /\ m_command = "download"
    /\ LET r == setup_gmail_api(token_pickle, credentials_json)
       IN  /\ token_pickle' = r.token
           /\ m_pc' = IF r.service THEN "running" ELSE "returned"
           /\ m_exit' = IF r.service THEN "none" ELSE "no_service"
    /\ UNCHANGED <<downloadVars, convertVars, retrieveVars, pureVars, m_command, credentials_json, catalogVars>>

\* setup_gmail_api raises: main ends with the traceback.
MainSetupRaises ==
    /\ m_pc = "start"
    /\ m_command = "download"
    /\ SetupMayRaise(token_pickle, credentials_json)
    /\ m_pc' = "returned"
    /\ m_exit' = "raised"
    /\ UNCHANGED <<downloadVars, convertVars, retrieveVars, pureVars, m_command, token_pickle,
                   credentials_json, catalogVars>>

\* if not os.path.exists(input_dir): return
MainInputCheck ==
    /\ m_pc = "start"
    /\ m_command = "convert"
    /\ m_pc' = IF InputDirMissing(raw_dir_exists) THEN "returned" ELSE "running"
    /\ m_exit' = IF InputDirMissing(raw_dir_exists) THEN "no_input_dir" ELSE "none"
    /\ UNCHANGED <<downloadVars, convertVars, retrieveVars, pureVars, m_command, token_pickle,
                   credentials_json, catalogVars>>

Downloading == m_pc = "running" /\ m_command = "download"
Converting == m_pc = "running" /\ m_command = "convert"

\* download_email_batch(service, message_ids, output_dir, dry_run=args.dry_run)
MainDownloadBatch ==
    /\ Downloading
    /\ r_pc = "done"
    /\ message_ids /= <<>>
    /\ d_pc = "idle"
    /\ \E dry \in BOOLEAN : DownloadStart(message_ids, dry)

\* "No emails found matching criteria!"; return, and the returns at the end
\* of the two branches.
MainReturn ==
    /\ m_pc = "running"
    /\ \/ m_command = "download" /\ r_pc = "done" /\ message_ids = <<>> /\ m_exit' = "no_emails"
       \/ m_command = "download" /\ d_pc = "done" /\ m_exit' = "finished"
       \/ m_command = "convert" /\ c_pc = "done" /\ m_exit' = "finished"
    /\ m_pc' = "returned"
    /\ UNCHANGED <<downloadVars, convertVars, retrieveVars, pureVars, m_command, token_pickle,
                   credentials_json, catalogVars>>

NextMain ==
    \/ MainSetup
    \/ MainSetupRaises
    \/ MainInputCheck
    \/ Downloading /\ RetrieveStart
    \/ Downloading /\ ListPage
    \/ Downloading /\ ListRaises
    \/ MainDownloadBatch
    \/ Downloading /\ DownloadSkip
    \/ Downloading /\ DownloadFetch
    \/ Downloading /\ DownloadDump
    \/ Downloading /\ DownloadReturn
    \/ Downloading /\ PreviewItem
    \/ Downloading /\ PreviewReturn
    \/ Converting /\ c_pc = "idle" /\ ConvertStart
    \/ Converting /\ ConvertItem
    \/ Converting /\ ConvertReturn
    \/ MainReturn

SpecMain == InitMain /\ [][NextMain]_vars

\* No usable token and no client secrets file: setup_gmail_api has nothing
\* to authenticate with.
CredentialsMissing == ~credentials_json /\ token_pickle \in {"absent", "stale"}

\* C19: with the credentials missing the download command never gets going:
\* no list call, no get call, nothing written; with the input directory
\* missing the convert command never gets going: the converter is not
\* invoked and no artifact is written.
C19_ConfigErrorAborts ==
    [][ /\ (m_command = "download" /\ CredentialsMissing) =>
             /\ m_pc' /= "running"
             /\ list_calls' = <<>>
             /\ get_log' = <<>>
             /\ raw_emails' = raw_emails
             /\ raw_dir_exists' = raw_dir_exists
             /\ artifacts' = artifacts
             /\ token_pickle' = token_pickle
        /\ (m_command = "convert" /\ ~raw_dir_exists) =>
             /\ m_pc' /= "running"
             /\ conv_calls' = 0
             /\ artifacts' = artifacts
             /\ raw_emails' = raw_emails
             /\ raw_dir_exists' = raw_dir_exists ]_vars

\* The download command has returned for want of credentials, with a query
\* that needs no confirmation and a mailbox that holds identifiers.
C19_Witness ==
    /\ m_pc = "returned"
    /\ m_exit = "no_service"
    /\ m_command = "download"
    /\ CredentialsMissing
    /\ build_gmail_query(args) /= <<>>
    /\ Len(svc_pages[1].ids) > 0
    /\ list_calls = <<>>
    /\ get_log = <<>>

\* ------------------------------------------- ModelQuery (openrouter_helper)
MaxModels == 2      \* most models in the remote catalogue
MaxFilters == 2     \* most filters added to one query

\* Model(id, name, context_length, pricing); pricing.prompt and
\* pricing.completion are prices per token in units of 1e-7 USD.
Model(id, name, context_length, prompt, completion) ==
    [id |-> id, name |-> name, context_length |-> context_length,
     pricing |-> [prompt |-> prompt, completion |-> completion]]

ModelPool ==
    { Model(<<"c", "/", "m">>, <<"C", "M">>, 8192, 1, 2),
      Model(<<"o", "/", "g">>, <<"G", "P", "T">>, 128000, 50, 150),
      Model(<<"a", "/", "c">>, <<"C", "l">>, 200000, 30, 150) }

\* Per-token prices whose float product with 1_000_000 falls one step short
\* of the decimal value: 1e-07 * 1e6 is 0.09999999999999999 and 2e-07 * 1e6
\* is 0.19999999999999998.
RoundedDown == {1, 2}

\* A float price per million as an integer that keeps the order of floats:
\* twice the price in thousandths of a dollar, less one when the float is
\* the one just below that decimal value.
Dollars(thousandths) == 2 * thousandths
PerMillion(price) == Dollars(price * 100) - (IF price \in RoundedDown THEN 1 ELSE 0)

\* Model.input_price_per_million and Model.output_price_per_million
input_price_per_million(m) == PerMillion(m.pricing.prompt)
output_price_per_million(m) == PerMillion(m.pricing.completion)

\* str.lower() on the letters used here.
LowerChar(c) ==
    CASE c = "C" -> "c" [] c = "M" -> "m" [] c = "G" -> "g" [] c = "P" -> "p"
      [] c = "T" -> "t" [] OTHER -> c
LowerSeq(s) == [i \in 1..Len(s) |-> LowerChar(s[i])]

\* text in s
Contains(text, s) ==
    \E i \in 0..(Len(s) - Len(text)) : SubSeq(s, i + 1, i + Len(text)) = text

\* One element of self._filters: the method that added it and its argument
\* (a threshold, a text, or for where() the ids its function accepts).
Filter(kind, number, text, ids) == [kind |-> kind, number |-> number, text |-> text, ids |-> ids]

FilterPool ==
    { Filter("input_price_less_than", Dollars(100), <<>>, {}),
      Filter("output_price_less_than", Dollars(15000), <<>>, {}),
      Filter("input_price_greater_than", Dollars(3000), <<>>, {}),
      Filter("output_price_greater_than", Dollars(200), <<>>, {}),
      Filter("context_length_greater_than", 128000, <<>>, {}),
      Filter("name_contains", 0, <<"g", "P">>, {}),
      Filter("id_contains", 0, <<"C">>, {}),
      Filter("where", 0, <<>>, {<<"c", "/", "m">>, <<"a", "/", "c">>}) }

\* The filters with <= and >= for < and >.
filter_fn_NotStrict(f, m) ==
    CASE f.kind = "input_price_less_than" -> input_price_per_million(m) <= f.number
      [] f.kind = "output_price_less_than" -> output_price_per_million(m) <= f.number
      [] f.kind = "input_price_greater_than" -> input_price_per_million(m) >= f.number
      [] f.kind = "output_price_greater_than" -> output_price_per_million(m) >= f.number
      [] f.kind = "context_length_greater_than" -> m.context_length >= f.number
      [] f.kind = "name_contains" -> Contains(LowerSeq(f.text), LowerSeq(m.name))
      [] f.kind = "id_contains" -> Contains(LowerSeq(f.text), LowerSeq(m.id))
      [] f.kind = "where" -> m.id \in f.ids

\* filter_fn(m) for the lambda each where_ method appends.
filter_fn(f, m) ==
    CASE f.kind = "input_price_less_than" -> input_price_per_million(m) < f.number
      [] f.kind = "output_price_less_than" -> output_price_per_million(m) < f.number
      [] f.kind = "input_price_greater_than" -> input_price_per_million(m) > f.number
      [] f.kind = "output_price_greater_than" -> output_price_per_million(m) > f.number
      [] f.kind = "context_length_greater_than" -> m.context_length > f.number
      [] f.kind = "name_contains" -> Contains(LowerSeq(f.text), LowerSeq(m.name))
      [] f.kind = "id_contains" -> Contains(LowerSeq(f.text), LowerSeq(m.id))
      [] f.kind = "where" -> m.id \in f.ids

\* for filter_fn in self._filters: models = [m for m in models if filter_fn(m)]
RECURSIVE list_models(_, _)
list_models(models, filters) ==
    IF filters = <<>> THEN models
    ELSE list_models(SelectSeq(models, LAMBDA m : filter_fn(filters[1], m)), Tail(filters))

\* len(self.list_models())
count(models, filters) == Len(list_models(models, filters))

\* models[0] if models else None
first(models, filters) ==
    LET found == list_models(models, filters)
    IN  IF found /= <<>> THEN Result("first", <<found[1]>>, 0, FALSE)
        ELSE Result("first", <<>>, 0, TRUE)

\* Catalogues: the pool's models in any order, no model twice.
RECURSIVE CataloguesUpTo(_)
CataloguesUpTo(n) ==
    IF n = 0 THEN { <<>> }
    ELSE LET shorter == CataloguesUpTo(n - 1)
         IN  shorter \cup
             UNION { { Append(c, m) : m \in { x \in ModelPool : \A i \in 1..Len(c) : c[i] /= x } } :
                     c \in { d \in shorter : Len(d) = n - 1 } }

Catalogues == CataloguesUpTo(MaxModels)

InitModelQuery ==
    /\ raw_emails = [id \in Ids |-> NoFile]
    /\ raw_dir_exists = FALSE
    /\ DownloadIdle
    /\ ConvertIdle
    /\ RetrieveIdle
    /\ PureIdle
    /\ MainIdle
    /\ mq_models \in Catalogues
    /\ mq_filters = <<>>
    /\ mq_call = "none"
    /\ mq_fetched = <<>>
    /\ mq_result = NoResult

othersUnchanged == UNCHANGED <<downloadVars, convertVars, retrieveVars, pureVars, mainVars>>

\* Any of the where_ methods: self._filters.append(...); return self
Where(f) ==
    /\ Len(mq_filters) < MaxFilters
    /\ mq_filters' = Append(mq_filters, f)
    /\ mq_call' = "none"
    /\ mq_fetched' = <<>>
    /\ mq_result' = NoResult
    /\ UNCHANGED mq_models
    /\ othersUnchanged

\* query.list_models(). The catalogue is the remote's, not the query's: every
\* request finds it as it is at that moment.
ListModels ==
    /\ mq_models' \in Catalogues
    /\ mq_fetched' = mq_models'
    /\ mq_result' = Result("list", list_models(mq_models', mq_filters), 0, FALSE)
    /\ mq_call' = "list_models"
    /\ UNCHANGED mq_filters
    /\ othersUnchanged

\* query.count()
Count ==
    /\ mq_models' \in Catalogues
    /\ mq_fetched' = mq_models'
    /\ mq_result' = Result("count", <<>>, count(mq_models', mq_filters), FALSE)
    /\ mq_call' = "count"
    /\ UNCHANGED mq_filters
    /\ othersUnchanged

\* query.first()
First ==
    /\ mq_models' \in Catalogues
    /\ mq_fetched' = mq_models'
    /\ mq_result' = first(mq_models', mq_filters)
    /\ mq_call' = "first"
    /\ UNCHANGED mq_filters
    /\ othersUnchanged

\* Any of the three, with requests.get or raise_for_status raising in
\* client.get_models().
GetModelsRaises ==
    /\ mq_call /= "raised"
    /\ mq_call' = "raised"
    /\ mq_fetched' = <<>>
    /\ mq_result' = NoResult
    /\ UNCHANGED <<mq_models, mq_filters>>
    /\ othersUnchanged

NextModelQuery ==
    \/ \E f \in FilterPool : Where(f)
    \/ ListModels
    \/ Count
    \/ First
    \/ GetModelsRaises

SpecModelQuery == InitModelQuery /\ [][NextModelQuery]_vars

\* What the claim calls satisfying a filter: strictly below or above the
\* threshold, or holding the text whatever the case of the letters.
Meets(m, f) ==
    LET folded(s) == [i \in 1..Len(s) |->
                        IF s[i] \in {"C", "M", "G", "P", "T"}
                        THEN [C |-> "c", M |-> "m", G |-> "g", P |-> "p", T |-> "t"][s[i]]
                        ELSE s[i]]
        within(t, s) == \E a, b \in 0..Len(s) :
                            a <= b /\ folded(SubSeq(s, a + 1, b)) = folded(t)
    IN  CASE f.kind = "input_price_less_than" ->
                input_price_per_million(m) < f.number
          [] f.kind = "output_price_less_than" ->
                output_price_per_million(m) < f.number
          [] f.kind = "input_price_greater_than" ->
                f.number < input_price_per_million(m)
          [] f.kind = "output_price_greater_than" ->
                f.number < output_price_per_million(m)
          [] f.kind = "context_length_greater_than" ->
                f.number < m.context_length
          [] f.kind = "name_contains" -> within(f.text, m.name)
          [] f.kind = "id_contains" -> within(f.text, m.id)
          [] f.kind = "where" -> m.id \in f.ids

\* The fetched models that meet every filter, in the order fetched.
Matching == SelectSeq(mq_fetched, LAMBDA m : \A i \in 1..Len(mq_filters) : Meets(m, mq_filters[i]))

C22_PageProcessedBeforeNext ==
    [][(Downloading /\ Len(list_calls') > Len(list_calls)) =>
           \A i \in 1..Len(message_ids) : raw_emails[message_ids[i]] /= NoFile]_vars

\* ------------------------------------------------ conversion stage: the counts
\* The artifact files this run wrote: absent when it started, now holding
\* what f.write put there.
WrittenThisRun ==
    {n \in ArtifactNames :
        arts_at_start[n] = NoArtifact /\ artifacts[n] \notin {NoArtifact, EmptyArtifact}}

\* C23: every iteration of the conversion loop ends in exactly one of four
\* ways: the artifact is written and counted successful; the record is
\* skipped because its artifact exists; the converter or the write fails,
\* counted as neither; the record cannot be read, counted failed. When the
\* stage finishes every record listed has had its iteration, successful is
\* the number of artifact files written in this run, and successful + failed
\* is at most the number of record files listed.
C23_OutcomesAndCounts ==
    [][/\ (c_pc = "running" /\ c_idx' = c_idx + 1) =>
             \/ /\ c_outcome' = "converted"
                /\ successful' = successful + 1 /\ failed' = failed
                /\ Cardinality(WrittenThisRun') = Cardinality(WrittenThisRun) + 1
             \/ /\ c_outcome' = "skipped_exists"
                /\ successful' = successful /\ failed' = failed
                /\ artifacts' = artifacts
             \/ /\ c_outcome' \in {"convert_failed", "write_failed"}
                /\ successful' = successful /\ failed' = failed
                /\ WrittenThisRun' = WrittenThisRun
             \/ /\ c_outcome' = "read_failed"
                /\ successful' = successful /\ failed' = failed + 1
                /\ artifacts' = artifacts
       /\ c_pc' = "done" =>
             /\ c_idx' = Len(json_files')
             /\ successful' = Cardinality(WrittenThisRun')
             /\ successful' + failed' <= Len(json_files')]_vars

\* A finished run over two record files: one converted, one unreadable.
C23_Witness ==
    /\ c_pc = "done"
    /\ Len(json_files) = 2
    /\ successful = 1
    /\ failed = 1
    /\ Cardinality(WrittenThisRun) = 1

\* ------------------------------------------ download and convert runs in turn
\* An empty store; download and convert commands are then run one after
\* another, in any order and any number of times.
InitPipeline ==
    /\ raw_emails = [id \in Ids |-> NoFile]
    /\ raw_dir_exists = FALSE
    /\ DownloadIdle
    /\ ConvertIdle
    /\ RetrieveIdle
    /\ PureIdle
    /\ MainIdle
    /\ CatalogIdle

\* No command is running: each command is a process of its own.
NoProcess == d_pc = "idle" /\ c_pc = "idle"

\* main returns and the process ends: its memory is gone, the files stay.
ProcessExit ==
    /\ \/ d_pc = "done" /\ c_pc = "idle"
       \/ c_pc = "done" /\ d_pc = "idle"
    /\ d_pc' = "idle"
    /\ d_ids' = <<>>
    /\ d_idx' = 0
    /\ dry_run' = FALSE
    /\ d_outcome' = "none"
    /\ d_pending' = NoFile
    /\ get_log' = <<>>
    /\ start_files' = {}
    /\ d_clean' = TRUE
    /\ d_repeat' = "no"
    /\ c_pc' = "idle"
    /\ json_files' = <<>>
    /\ c_idx' = 0
    /\ successful' = 0
    /\ failed' = 0
    /\ conv_calls' = 0
    /\ c_outcome' = "none"
    /\ arts_at_start' = [n \in ArtifactNames |-> NoArtifact]
    /\ c_second' = FALSE
    /\ UNCHANGED <<raw_emails, raw_dir_exists, artifacts, retrieveVars, pureVars, mainVars,
                   catalogVars>>

NextPipeline ==
    \/ NoProcess /\ \E ids \in SeqsUpTo(Ids, MaxLen), dry \in BOOLEAN : DownloadStart(ids, dry)
    \/ DownloadSkip
    \/ DownloadFetch
    \/ DownloadDump
    \/ DownloadReturn
    \/ PreviewItem
    \/ PreviewReturn
    \/ NoProcess /\ raw_dir_exists /\ ConvertStart
    \/ ConvertItem
    \/ ConvertReturn
    \/ ProcessExit

SpecPipeline == InitPipeline /\ [][NextPipeline]_vars

\* The artifact filename of each answer of the converter.
NameOf == [e \in EssayPool |-> md_filename(e)]

\* Every artifact file holds what the converter answered, under the name
\* derived from that answer, for the body.text of a record file of the store.
ArtifactsFromRecords ==
    \A n \in ArtifactNames :
        artifacts[n] /= NoArtifact =>
            \E e \in EssayPool, id \in Ids :
                /\ NameOf[e] = n
                /\ raw_emails[id].kind = "record"
                /\ artifacts[n] = Content(e, raw_emails[id].text)

\* C24: across download and convert runs no record file and no artifact file
\* is deleted or emptied, a complete record file is never changed, and every
\* artifact file holds what the converter answered for the body.text of a
\* record file of the store.
C24_PipelineNeverRegresses ==
    [][/\ \A id \in Ids :
             /\ raw_emails[id] /= NoFile => raw_emails'[id] /= NoFile
             /\ raw_emails[id].kind = "record" => raw_emails'[id] = raw_emails[id]
       /\ \A n \in ArtifactNames :
             artifacts[n] /= NoArtifact => artifacts'[n] = artifacts[n]
       /\ ArtifactsFromRecords']_vars

====
